---------------------------- MODULE Spec2Model ----------------------------
(***************************************************************************)
(* A model of pulpscript.py, the code generator that turns parsed          *)
(* PulpScript command trees into Lua text.                                 *)
(*                                                                         *)
(* Python values are modelled as tagged records: S(s) a str, N(n) an int,  *)
(* None, and L(<<...>>) a list.  Python text is TLA+ text, built with \o   *)
(* as the code builds it with +.  A function that returns a value and      *)
(* changes the context returns a record [r |-> value, ctx |-> context].    *)
(* A raised exception (a failed assert, an index error) is the context     *)
(* with its exc field set; every caller passes it up unchanged, as Python  *)
(* unwinds, without running the rest of its body.                          *)
(***************************************************************************)
EXTENDS Integers, Sequences, FiniteSets, TLC

VARIABLES ctx, out, prog

vars == <<ctx, out, prog>>

(***************************************************************************)
(* Python values                                                           *)
(***************************************************************************)
S(s) == [t |-> "str", v |-> s]
N(n) == [t |-> "int", v |-> n]
None == [t |-> "none"]
L(q) == [t |-> "list", v |-> q]

IsStr(x)  == x.t = "str"
IsInt(x)  == x.t = "int"
IsList(x) == x.t = "list"
\* x == "lit", where x is any Python value
EqStr(x, lit) == x.t = "str" /\ x.v = lit
\* len(x) and x[k] of a list, k counted from 0 as in Python
PyLen(x)   == Len(x.v)
At(x, k)   == x.v[k + 1]
\* x[k:]
From(x, k) == L(SubSeq(x.v, k + 1, Len(x.v)))
\* x[k] = y, on a copy
SetAt(x, k, y) == L([x.v EXCEPT ![k + 1] = y])

(***************************************************************************)
(* Python text operations                                                  *)
(***************************************************************************)
Char(s, i) == SubSeq(s, i, i)
Drop(s, n) == SubSeq(s, n + 1, Len(s))
\* s.startswith(p)
StartsWith(s, p) == Len(s) >= Len(p) /\ SubSeq(s, 1, Len(p)) = p
\* sub in s
Contains(s, sub) ==
    \E i \in 1..(Len(s) - Len(sub) + 1) : SubSeq(s, i, i + Len(sub) - 1) = sub
\* the number of places sub occurs at in s
Count(s, sub) ==
    Cardinality({i \in 1..(Len(s) - Len(sub) + 1) : SubSeq(s, i, i + Len(sub) - 1) = sub})

RECURSIVE Replace(_, _, _)
\* s.replace(old, new), old not empty
Replace(s, old, new) ==
    IF Len(s) < Len(old) THEN s
    ELSE IF StartsWith(s, old)
         THEN new \o Replace(Drop(s, Len(old)), old, new)
         ELSE Char(s, 1) \o Replace(Drop(s, 1), old, new)

Whitespace == {" ", "\n", "\t", "\r", "\f"}

RECURSIVE LStrip(_)
LStrip(s) == IF Len(s) > 0 /\ Char(s, 1) \in Whitespace THEN LStrip(Drop(s, 1)) ELSE s
RECURSIVE RStrip(_)
RStrip(s) ==
    IF Len(s) > 0 /\ Char(s, Len(s)) \in Whitespace
    THEN RStrip(SubSeq(s, 1, Len(s) - 1)) ELSE s
\* s.strip()
Strip(s) == RStrip(LStrip(s))

RECURSIVE Repeat(_, _)
\* s * n
Repeat(s, n) == IF n <= 0 THEN "" ELSE s \o Repeat(s, n - 1)

Digits  == {"0", "1", "2", "3", "4", "5", "6", "7", "8", "9"}
Letters == {"a", "b", "c", "d", "e", "f", "g", "h", "i", "j", "k", "l", "m",
            "n", "o", "p", "q", "r", "s", "t", "u", "v", "w", "x", "y", "z",
            "A", "B", "C", "D", "E", "F", "G", "H", "I", "J", "K", "L", "M",
            "N", "O", "P", "Q", "R", "S", "T", "U", "V", "W", "X", "Y", "Z"}

\* re.match(r'^[a-zA-Z_]\w*$', varname): $ also matches before one final newline
is_id(varname) ==
    LET n    == Len(varname)
        core == IF n > 0 /\ Char(varname, n) = "\n" THEN SubSeq(varname, 1, n - 1) ELSE varname
        Word(s) == /\ Len(s) > 0
                   /\ Char(s, 1) \in Letters \cup {"_"}
                   /\ \A i \in 2..Len(s) : Char(s, i) \in Letters \cup Digits \cup {"_"}
    IN  Word(varname) \/ Word(core)

sanitize_varname(varname) ==
    IF is_id(varname) THEN varname
    ELSE "_G[\"" \o Replace(varname, "\"", "\\\"") \o "\"]"

escape_string(s) ==
    Replace(Replace(Replace(Replace(s, "\\", "\\\\"), "\n", "\\n"), "\f", "\\f"), "\"", "\\\"")

\* s is any Python value
istoken(s) ==
    /\ IsStr(s)
    /\ ~Contains(s.v, " ")
    /\ ~Contains(s.v, "-")
    /\ Len(s.v) # 0
    /\ Char(s.v, 1) \notin Digits

(***************************************************************************)
(* PulpScriptContext                                                       *)
(***************************************************************************)
EmptyDict == [k \in {} |-> 0]

\* PulpScriptContext(); the driver then sets ctx.blocks
NewCtx ==
    [indent |-> 1, errors |-> <<>>, vars |-> {}, var_usage |-> EmptyDict,
     full_mimics |-> <<>>, funccache |-> <<>>, evobjs |-> <<>>,
     ext_pdxinfo |-> EmptyDict, ext_ptl |-> EmptyDict, script_tags |-> EmptyDict,
     self_evnames |-> {}, comments_block |-> <<>>, root_evobj |-> "",
     blocks |-> <<>>, exc |-> ""]

Raise(c, msg) == [c EXCEPT !.exc = msg]
Raised(c)     == c.exc # ""
Ret(r, c)     == [r |-> r, ctx |-> c]

push_funccache(c) == [c EXCEPT !.funccache = Append(@, {})]
pop_funccache(c)  == [c EXCEPT !.funccache = SubSeq(@, 1, Len(@) - 1)]
push_evobj(c, obj) == [c EXCEPT !.evobjs = Append(@, obj)]
\* a pop_evobj that leaves the dispatch object on the stack
pop_evobj_kept(c) == c
pop_evobj(c)       == [c EXCEPT !.evobjs = SubSeq(@, 1, Len(@) - 1)]
\* self.evobjs[-1]; the caller has checked that the list is not empty
get_evobj(c)       == c.evobjs[Len(c.evobjs)]
\* a frame that forgets what is added to it
funccache_add_lost(c, stmt) == c
\* ctx.get_funccache().add(stmt): funccache[-1] of an empty list raises
funccache_add(c, stmt) ==
    IF Len(c.funccache) = 0 THEN Raise(c, "IndexError")
    ELSE [c EXCEPT !.funccache[Len(c.funccache)] = @ \cup {stmt}]

gi(c) == Repeat("  ", c.indent)

\* an error list that keeps the last message only
log_error_reset(c, msg) == [c EXCEPT !.errors = <<msg>>]
\* ctx.errors += [msg]
log_error(c, msg) == [c EXCEPT !.errors = @ \o <<msg>>]

add_script_tag(c, scriptsrc, name) ==
    LET san_name == "__OPTTAG__" \o Replace(Replace(scriptsrc \o "_" \o name, "-", "_"), " ", "_")
    IN  IF san_name \in DOMAIN c.script_tags THEN Ret(san_name, c)
        ELSE Ret(san_name,
                 [c EXCEPT !.script_tags =
                     (san_name :> [scriptsrc |-> scriptsrc, name |-> name]) @@ @])

\* a pingvar that escapes with one underscore
pingvar_one(c, varname) ==
    IF Contains(varname, ".") THEN Ret(varname, c)
    ELSE IF StartsWith(varname, "__PTLE_") THEN Ret(varname, c)
    ELSE LET usage == IF varname \in DOMAIN c.var_usage THEN c.var_usage[varname] ELSE 0
             v1    == IF StartsWith(varname, "__") THEN "_" \o varname ELSE varname
             v2    == sanitize_varname(v1)
         IN  Ret(v2, [c EXCEPT !.var_usage = (varname :> usage + 1) @@ @,
                               !.vars = @ \cup {v2}])

pingvar(c, varname) ==
    IF Contains(varname, ".") THEN Ret(varname, c)
    ELSE IF StartsWith(varname, "__PTLE_") THEN Ret(varname, c)
    ELSE LET usage == IF varname \in DOMAIN c.var_usage THEN c.var_usage[varname] ELSE 0
             v1    == IF StartsWith(varname, "__") THEN "__" \o varname ELSE varname
             v2    == sanitize_varname(v1)
         IN  Ret(v2, [c EXCEPT !.var_usage = (varname :> usage + 1) @@ @,
                               !.vars = @ \cup {v2}])


(***************************************************************************)
(* Module tables                                                           *)
(***************************************************************************)
compdict ==
    [k \in {"lt", "lte", "gt", "gte", "eq", "neq"} |->
        CASE k = "lt" -> "<" [] k = "lte" -> "<=" [] k = "gt" -> ">"
          [] k = "gte" -> ">=" [] k = "eq" -> "==" [] k = "neq" -> "~="]

funclist ==
    {"goto", "shake", "fin", "hide", "draw", "bpm", "sound", "invert", "frame",
     "fill", "swap", "label", "restore", "store", "toss", "wait", "say", "ask",
     "menu", "option", "act", "loop", "once", "stop", "tell", "ignore", "listen",
     "log", "dump", "window", "crop", "play"}

exfuncs ==
    {"type", "id", "solid", "frame", "floor", "round", "ceil", "invert", "name",
     "random", "sine", "cosine", "tangent", "degrees", "radians", "lpad", "rpad"}

inlinefuncs ==
    ("__fn_frame" :> "{0}.frame = {1}")
 @@ ("__fn_inc" :> "{0} += 1")
 @@ ("__fn_dec" :> "{0} -= 1")
 @@ ("__fn_log" :> "__print({0})")
 @@ ("__fn_fill" :> "__setcolour(__fillcolours[{4}]); __fillrect({0} * __pix8scale, {1} * __pix8scale, {2} * __pix8scale, {3} * __pix8scale)")
 @@ ("__ex_frame" :> "({0}.frame or 0)")
 @@ ("__ex_invert" :> "(__pulp.invert and 1 or 0)")
 @@ ("__ex_degrees" :> "({0} * 360 / __tau)")
 @@ ("__ex_radians" :> "({0} * __tau / 360)")

XYWH  == <<"x", "y", "w", "h">>
AEEB  == <<"actor", "event", "evname", "block">>
funcargs ==
    ("frame" :> <<"actor">>)
 @@ ("goto" :> <<"x", "y">>)
 @@ ("tell" :> <<"event", "evname", "block">>)
 @@ ("swap" :> <<"actor">>)
 @@ ("label" :> <<"x", "y", "len", "lines">>)
 @@ ("draw" :> <<"x", "y">>)
 @@ ("solid" :> <<"x", "y">>)
 @@ ("wait" :> AEEB)
 @@ ("say" :> XYWH \o AEEB)
 @@ ("ask" :> XYWH \o AEEB)
 @@ ("menu" :> XYWH \o AEEB)
 @@ ("option" :> AEEB)
 @@ ("window" :> XYWH)
 @@ ("fill" :> XYWH)
 @@ ("crop" :> XYWH)
 @@ ("play" :> AEEB)
 @@ ("once" :> AEEB)
 @@ ("type" :> <<"x", "y">>)
 @@ ("id" :> <<"x", "y">>)

staticfuncs ==
    ("floor" :> "__floor") @@ ("ceil" :> "__ceil") @@ ("round" :> "__round")
 @@ ("sine" :> "__sin") @@ ("cosine" :> "__cos") @@ ("tangent" :> "__tan")
 @@ ("random" :> "__random")

\* the known-tile table, filled by the driver before any handler is compiled
tile_ids == ("wall" :> 3) @@ ("door" :> 12)

\* Returns the command as the in-place assignment leaves it, and what the call returns.
optimize_name_ref(cmd, idx) ==
    IF PyLen(cmd) > idx /\ IsStr(At(cmd, idx)) /\ At(cmd, idx).v \in DOMAIN tile_ids
    THEN [r |-> TRUE,
          cmd |-> SetAt(cmd, idx, L(<<S("optimized-id"), N(tile_ids[At(cmd, idx).v]), At(cmd, idx)>>))]
    ELSE [r |-> FALSE, cmd |-> cmd]

\* the names that add a local binding to the current cache frame
SpecialCached ==
    ("event.px" :> <<"local __event_px = __pulp.player.x", "__event_px">>)
 @@ ("event.py" :> <<"local __event_py = __pulp.player.y", "__event_py">>)
 @@ ("event.x" :> <<"local __event_x = __actor.x or __pulp.player.x", "__event_x">>)
 @@ ("event.y" :> <<"local __event_y = __actor.y or __pulp.player.y", "__event_y">>)
 @@ ("event.dx" :> <<"local __event_dx = event.dx or 0", "__event_dx">>)
 @@ ("event.dy" :> <<"local __event_dy = event.dy or 0", "__event_dy">>)
 @@ ("event.tile" :> <<"local __event_tile = __actor.name or 0", "__event_tile">>)

\* the names that map to a fixed expression
SpecialFixed ==
    ("event.room" :> "event.room.name")
 @@ ("event.player" :> "__pulp.player.name")
 @@ ("datetime.year" :> "__getTime().year")
 @@ ("datetime.year99" :> "--[[(year99)]] (__getTime().year % 100)")
 @@ ("datetime.month" :> "__getTime().month")
 @@ ("datetime.day" :> "__getTime().day")
 @@ ("datetime.weekday" :> "(__getTime().weekday - 1)")
 @@ ("datetime.hour" :> "__getTime().hour")
 @@ ("datetime.hour12" :> "--[[(hour12)]] ((__getTime().hour % 12) + 1)")
 @@ ("datetime.minute" :> "__getTime().minute")
 @@ ("datetime.second" :> "__getTime().second")
 @@ ("datetime.millisecond" :> "__getTime().millisecond --[[(PTL-only?)]]")
 @@ ("datetime.ampm" :> "--[[(ampm)]] (__getTime().hour < 12 and \"am\" or \"pm\")")
 @@ ("datetime.AMPM" :> "--[[(AMPM)]] (__getTime().hour < 12 and \"AM\" or \"PM\")  --[[(PTL-only?)]]")
 @@ ("datetime.timestamp" :> "__getSecondsSinceEpoch()")
 @@ ("__PTLE_SMOOTH_MOVEMENT_SPEED" :> "__pulp.PTLE_SMOOTH_MOVEMENT_SPEED")
 @@ ("__PTLE_SMOOTH_OFFSET_X" :> "__pulp.PTLE_SMOOTH_OFFSET_X")
 @@ ("__PTLE_SMOOTH_OFFSET_Y" :> "__pulp.PTLE_SMOOTH_OFFSET_Y")
 @@ ("__PTLE_CONFIRM_DAS" :> "__pulp.PTLE_CONFIRM_DAS")
 @@ ("__PTLE_CANCEL_DAS" :> "__pulp.PTLE_CANCEL_DAS")
 @@ ("__PTLE_V_DAS" :> "__pulp.PTLE_V_DAS")
 @@ ("__PTLE_H_DAS" :> "__pulp.PTLE_H_DAS")

remap_special_varname(varname, c) ==
    IF varname \in DOMAIN SpecialCached
    THEN Ret(SpecialCached[varname][2], funccache_add(c, SpecialCached[varname][1]))
    ELSE IF varname \in DOMAIN SpecialFixed THEN Ret(SpecialFixed[varname], c)
    ELSE Ret(varname, c)

\* expression[1] is a name, as the parser writes it
ex_get(expression, c) ==
    IF ~(PyLen(expression) > 1 /\ IsStr(At(expression, 1))) THEN Ret("", Raise(c, "TypeError"))
    ELSE LET p == pingvar(c, At(expression, 1).v)
         IN  remap_special_varname(p.r, p.ctx)

\* s[1:-1]
Inner(s) == IF Len(s) <= 2 THEN "" ELSE SubSeq(s, 2, Len(s) - 1)

\* ctx.blocks[idx]: the table is a list of blocks, idx any Python value
HasBlock(c, idx) == IsInt(idx) /\ idx.v >= 0 /\ idx.v < Len(c.blocks)
BlockAt(c, k)    == c.blocks[k + 1]

(***************************************************************************)
(* The expression compiler                                                 *)
(***************************************************************************)
RECURSIVE Call(_, _)
\* The functions below call one another in a cycle.  Each such call is made
\* through Call, which is defined after them and runs the function named.
DecodeRvalue(expression, c)             == Call("decode_rvalue", <<expression, c>>)
OpexFunc(cmd, op, prefix, c)            == Call("opex_func", <<cmd, op, prefix, c>>)
TranspileCommands(idx, c, has_funccache) == Call("transpile_commands", <<idx, c, has_funccache>>)
TranspileCommand(cmd, c, next_cmds)     == Call("transpile_command", <<cmd, c, next_cmds>>)
OpBlock(cmd, statement, follow, end, c) == Call("op_block", <<cmd, statement, follow, end, c>>)

RECURSIVE ex_format_loop(_, _, _, _)
RECURSIVE opex_func_args(_, _, _, _, _)
RECURSIVE transpile_commands_loop(_, _, _, _)
RECURSIVE op_block_subs(_, _, _, _)

\* the loop of ex_format over expression[1:], from element k on
ex_format_loop(expression, k, s, c) ==
    IF k >= PyLen(expression) THEN Ret(s, c)
    ELSE LET component == At(expression, k)
             s1 == IF k = 1 THEN s ELSE s \o " .. "
             d  == DecodeRvalue(component, c)
         IN  IF Raised(d.ctx) THEN d
             ELSE IF IsStr(component)
                  THEN ex_format_loop(expression, k + 1, s1 \o d.r, d.ctx)
                  ELSE ex_format_loop(expression, k + 1, s1 \o "__tostring(" \o d.r \o ")", d.ctx)

ex_format(expression, c) == ex_format_loop(expression, 1, "", c)

ex_embed(expression, c) ==
    IF PyLen(expression) <= 1 THEN Ret("", Raise(c, "IndexError"))
    ELSE LET d == DecodeRvalue(At(expression, 1), c)
         IN  Ret("__pulp.__ex_embed(" \o d.r \o ")", d.ctx)

ex_subroutine(expression, c) ==
    IF PyLen(expression) <= 1 THEN Ret("", Raise(c, "IndexError"))
    ELSE LET s  == "function(__actor, event, evname)\n"
             c1 == [c EXCEPT !.indent = @ + 2]
             b  == TranspileCommands(At(expression, 1), c1, TRUE)
             c2 == [b.ctx EXCEPT !.indent = @ - 2]
         IN  IF Raised(b.ctx) THEN b
             ELSE Ret(s \o b.r \o gi(c2) \o "  end", c2)

ex_name(expression, c) ==
    IF PyLen(expression) <= 1 THEN Ret("", Raise(c, "IndexError"))
    ELSE IF IsList(At(expression, 1)) /\ PyLen(At(expression, 1)) = 0
    THEN Ret("", Raise(c, "IndexError"))
    ELSE IF IsList(At(expression, 1)) /\ EqStr(At(At(expression, 1), 0), "xy")
    THEN IF PyLen(At(expression, 1)) <= 2 THEN Ret("", Raise(c, "IndexError"))
         ELSE LET x == DecodeRvalue(At(At(expression, 1), 1), c)
                  y == DecodeRvalue(At(At(expression, 1), 2), x.ctx)
              IN  IF Raised(x.ctx) THEN x
                  ELSE IF Raised(y.ctx) THEN y
                  ELSE Ret("__roomtiles[" \o y.r \o "][" \o x.r \o "].name", y.ctx)
    ELSE OpexFunc(expression, "name", "__ex_", c)

decode_rvalue(expression, c) ==
    IF IsStr(expression) THEN Ret("\"" \o escape_string(expression.v) \o "\"", c)
    ELSE IF IsInt(expression) THEN Ret(ToString(expression.v), c)
    ELSE IF expression = None THEN Ret("nil", c)
    ELSE IF ~(IsList(expression) /\ PyLen(expression) > 0 /\ IsStr(At(expression, 0)))
    THEN Ret("", Raise(c, "TypeError"))
    ELSE LET ex == At(expression, 0).v
         IN  IF ex = "get" THEN ex_get(expression, c)
             ELSE IF ex = "optimized-id"
             THEN IF PyLen(expression) <= 2 THEN Ret("", Raise(c, "IndexError"))
                  ELSE Ret("--[[(" \o At(expression, 2).v \o ")]] "
                           \o ToString(At(expression, 1).v), c)
             ELSE IF ex = "format" THEN ex_format(expression, c)
             ELSE IF ex = "embed" THEN ex_embed(expression, c)
             ELSE IF ex = "name" THEN ex_name(expression, c)
             ELSE IF ex \in exfuncs THEN OpexFunc(expression, ex, "__ex_", c)
             ELSE IF ex = "block" THEN ex_subroutine(expression, c)
             ELSE Ret("nil --[[unknown expression code '" \o ex \o "']]",
                      log_error(c, "unknown expression code: " \o ex))

(***************************************************************************)
(* The function-call resolver                                              *)
(***************************************************************************)
\* the loop of opex_func over cmd[1:], from element k on; the result r is
\* <<mainargs, setargs>>
opex_func_args(cmd, k, mainargs, setargs, c) ==
    IF k >= PyLen(cmd) THEN Ret(<<mainargs, setargs>>, c)
    ELSE LET arg == At(cmd, k)
             tag == IF IsList(arg) /\ PyLen(arg) > 0 /\ IsStr(At(arg, 0)) THEN At(arg, 0).v ELSE ""
         IN  IF IsList(arg) /\ PyLen(arg) = 0 THEN Ret(<<>>, Raise(c, "IndexError"))
             ELSE IF IsList(arg) /\ tag = "xy"
             THEN IF PyLen(arg) <= 2 THEN Ret(<<>>, Raise(c, "IndexError"))
                  ELSE LET x == DecodeRvalue(At(arg, 1), c)
                           y == DecodeRvalue(At(arg, 2), x.ctx)
                       IN  IF Raised(x.ctx) THEN x
                           ELSE IF Raised(y.ctx) THEN y
                           ELSE opex_func_args(cmd, k + 1, mainargs,
                                    ("x" :> x.r) @@ ("y" :> y.r) @@ setargs, y.ctx)
             ELSE IF IsList(arg) /\ tag = "rect"
             THEN IF PyLen(arg) <= 3 THEN Ret(<<>>, Raise(c, "IndexError"))
                  ELSE LET x == DecodeRvalue(At(arg, 1), c)
                           y == DecodeRvalue(At(arg, 2), x.ctx)
                           w == DecodeRvalue(At(arg, 3), y.ctx)
                           h == IF PyLen(arg) > 4 THEN DecodeRvalue(At(arg, 4), w.ctx)
                                ELSE Ret("", w.ctx)
                           xyw == ("x" :> x.r) @@ ("y" :> y.r) @@ ("w" :> w.r)
                       IN  IF Raised(x.ctx) THEN x
                           ELSE IF Raised(y.ctx) THEN y
                           ELSE IF Raised(w.ctx) THEN w
                           ELSE IF Raised(h.ctx) THEN h
                           ELSE opex_func_args(cmd, k + 1, mainargs,
                                    (IF PyLen(arg) > 4 THEN xyw @@ ("h" :> h.r) ELSE xyw) @@ setargs,
                                    h.ctx)
             ELSE IF IsList(arg) /\ tag = "block"
             THEN LET d == DecodeRvalue(arg, c)
                  IN  IF Raised(d.ctx) THEN d
                      ELSE opex_func_args(cmd, k + 1, mainargs, ("block" :> d.r) @@ setargs, d.ctx)
             ELSE LET d == DecodeRvalue(arg, c)
                  IN  IF Raised(d.ctx) THEN d
                      ELSE opex_func_args(cmd, k + 1, Append(mainargs, d.r), setargs, d.ctx)

RECURSIVE PadArgs(_, _, _, _)
\* for argname in funcargs[op][::-1]: put its value, or nil, in front
PadArgs(names, k, setargs, mainargs) ==
    IF k = 0 THEN mainargs
    ELSE PadArgs(names, k - 1, setargs,
                 <<IF names[k] \in DOMAIN setargs THEN setargs[names[k]] ELSE "nil">> \o mainargs)

RECURSIVE Fill(_, _, _)
\* for i in range(len(mainargs)): s = s.replace("{i}", mainargs[i]), from i on
Fill(s, mainargs, i) ==
    IF i >= Len(mainargs) THEN s
    ELSE Fill(Replace(s, "{" \o ToString(i) \o "}", mainargs[i + 1]), mainargs, i + 1)

RECURSIVE Join(_, _)
\* the arguments from the k-th on, separated by ", "
Join(args, k) ==
    IF k > Len(args) THEN ""
    ELSE (IF k = 1 THEN "" ELSE ", ") \o args[k] \o Join(args, k + 1)

opex_func(cmd, op, prefix, c) ==
    LET a == opex_func_args(cmd, 1, <<>>,
                 ("actor" :> "__actor") @@ ("event" :> "event") @@ ("evname" :> "__evname"), c)
        mainargs == IF op \in DOMAIN funcargs
                    THEN PadArgs(funcargs[op], Len(funcargs[op]), a.r[2], a.r[1])
                    ELSE a.r[1]
    IN  IF Raised(a.ctx) THEN Ret("", a.ctx)
        ELSE IF (prefix \o op) \in DOMAIN inlinefuncs
        THEN Ret(Fill(inlinefuncs[prefix \o op], mainargs, 0), a.ctx)
        ELSE IF op \in DOMAIN staticfuncs
        THEN Ret(staticfuncs[op] \o "(" \o Join(mainargs, 1) \o ")", a.ctx)
        ELSE Ret("__pulp." \o prefix \o op \o "(" \o Join(mainargs, 1) \o ")", a.ctx)

(***************************************************************************)
(* The command compiler                                                    *)
(***************************************************************************)
\* the result r is the text; cmd is the command as compiling it left it
Ret3(r, c, cmd) == [r |-> r, ctx |-> c, cmd |-> cmd]

op_set(cmd, operator, c) ==
    IF PyLen(cmd) <= 1 THEN Ret("", Raise(c, "IndexError"))
    ELSE IF ~IsStr(At(cmd, 1)) THEN Ret("", Raise(c, "AssertionError"))
    ELSE IF PyLen(cmd) <= 2 THEN Ret("", Raise(pingvar(c, At(cmd, 1).v).ctx, "IndexError"))
    ELSE LET lvalue == pingvar(c, At(cmd, 1).v)
             rvalue == DecodeRvalue(At(cmd, 2), lvalue.ctx)
         IN  \* RELASSIGN is True: the relative form is always taken
             Ret(lvalue.r \o " " \o operator \o "= " \o rvalue.r, rvalue.ctx)

op_inc(cmd, operator, c) ==
    IF PyLen(cmd) <= 1 THEN Ret("", Raise(c, "IndexError"))
    ELSE IF ~IsStr(At(cmd, 1)) THEN Ret("", Raise(c, "TypeError"))
    ELSE Ret(At(cmd, 1).v \o operator, c)

op_random(cmd, c) ==
    IF PyLen(cmd) = 2
    THEN LET a == DecodeRvalue(At(cmd, 1), c)
         IN  Ret("__random(" \o a.r \o ")", a.ctx)
    ELSE IF PyLen(cmd) = 3
    THEN LET a == DecodeRvalue(At(cmd, 1), c)
             b == DecodeRvalue(At(cmd, 2), a.ctx)
         IN  IF Raised(a.ctx) THEN a
             ELSE Ret("__random(" \o a.r \o ", " \o b.r \o ")", b.ctx)
    ELSE Ret("", Raise(c, "wrong number of arguments for 'random'"))

op_emit(cmd, c) ==
    IF PyLen(cmd) <= 1 THEN Ret("", Raise(c, "IndexError"))
    ELSE LET d == DecodeRvalue(At(cmd, 1), c)
         IN  Ret("__pulp:emit(" \o d.r \o ", event)", d.ctx)

\* a condition is [comparison, left, right] and a block operand is ["block", index]
IsCondition(x) == IsList(x) /\ PyLen(x) >= 3 /\ IsStr(At(x, 0))
IsBlockRef(x)  == IsList(x) /\ PyLen(x) >= 1 /\ EqStr(At(x, 0), "block")

\* the loop of op_block over cmd[3:], from element k on
op_block_subs(cmd, k, s, c) ==
    IF k >= PyLen(cmd) THEN Ret(s, c)
    ELSE LET sub == At(cmd, k)
         IN  IF ~(IsList(sub) /\ PyLen(sub) > 0 /\ IsStr(At(sub, 0)))
             THEN Ret("", Raise(c, "TypeError"))
             ELSE IF At(sub, 0).v = "elseif"
             THEN LET e == OpBlock(sub, "elseif", "then", "", c)
                  IN  IF Raised(e.ctx) THEN e
                      ELSE op_block_subs(cmd, k + 1, s \o gi(c) \o e.r, e.ctx)
             ELSE IF At(sub, 0).v = "else"
             THEN IF PyLen(sub) <= 1 THEN Ret("", Raise(c, "IndexError"))
                  ELSE IF ~IsBlockRef(At(sub, 1))
                  THEN Ret("", Raise([c EXCEPT !.indent = @ + 1], "AssertionError"))
                  ELSE LET s1 == s \o gi(c) \o "else\n"
                           c1 == [c EXCEPT !.indent = @ + 1]
                           b  == TranspileCommands(At(At(sub, 1), 1), c1, FALSE)
                           c2 == [b.ctx EXCEPT !.indent = @ - 1]
                       IN  IF Raised(b.ctx) THEN b
                           ELSE op_block_subs(cmd, k + 1, s1 \o b.r, c2)
             ELSE Ret("", Raise(c, "unrecognized block followup '" \o At(sub, 0).v \o "'"))

\* end is "" where the code passes None
op_block(cmd, statement, follow, end, c) ==
    IF ~(PyLen(cmd) > 1 /\ IsCondition(At(cmd, 1))) THEN Ret("", Raise(c, "IndexError"))
    ELSE LET condition  == At(cmd, 1)
             comparison == At(condition, 0).v
         IN  IF comparison \notin DOMAIN compdict
             THEN Ret("", Raise(c, "unrecognized comparison operator '" \o comparison \o "'"))
             ELSE LET compsym == compdict[comparison]
                      compl == IF istoken(At(condition, 1))
                               THEN LET p == pingvar(c, At(condition, 1).v)
                                    IN  remap_special_varname(p.r, p.ctx)
                               ELSE DecodeRvalue(At(condition, 1), c)
                      compr == DecodeRvalue(At(condition, 2), compl.ctx)
                  IN  IF Raised(compl.ctx) THEN compl
                      ELSE IF Raised(compr.ctx) THEN compr
                      ELSE IF PyLen(cmd) <= 2 THEN Ret("", Raise(compr.ctx, "IndexError"))
                      ELSE IF ~IsBlockRef(At(cmd, 2)) THEN Ret("", Raise(compr.ctx, "AssertionError"))
                      ELSE LET s  == statement \o " " \o compl.r \o " " \o compsym \o " "
                                     \o compr.r \o " " \o follow \o "\n"
                               c1 == [compr.ctx EXCEPT !.indent = @ + 1]
                               b  == TranspileCommands(At(At(cmd, 2), 1), c1, FALSE)
                               c2 == [b.ctx EXCEPT !.indent = @ - 1]
                               u  == op_block_subs(cmd, 3, s \o b.r, c2)
                           IN  IF Raised(b.ctx) THEN b
                               ELSE IF Raised(u.ctx) THEN u
                               ELSE IF end # "" THEN Ret(u.r \o gi(u.ctx) \o end, u.ctx)
                               ELSE u

\* tags is a sequence of texts; the result r is the callee
RECURSIVE op_call_tags(_, _, _, _, _, _)
\* the loop of op_call over tags, from the k-th on; r is <<fnbase, comment>>
op_call_tags(tags, k, fnbase, comment, fnstr, c) ==
    IF k > Len(tags) THEN Ret(<<fnbase, comment>>, c)
    ELSE IF StartsWith(tags[k], "[SCRIPT:")
    THEN LET scriptsrc == SubSeq(tags[k], Len("[SCRIPT:") + 1, Len(tags[k]) - 1)
             a == add_script_tag(c, scriptsrc, Inner(fnstr))
         IN  op_call_tags(tags, k + 1, a.r, comment \o " " \o tags[k], fnstr, a.ctx)
    ELSE op_call_tags(tags, k + 1, fnbase, comment, fnstr, c)

InSeq(x, q) == \E i \in 1..Len(q) : q[i] = x

op_call(cmd, c, tags) ==
    IF PyLen(cmd) <= 1 THEN Ret("", Raise(c, "IndexError"))
    ELSE LET tok   == istoken(At(cmd, 1))
             d     == IF tok THEN Ret("\"" \o At(cmd, 1).v \o "\"", c)
                      ELSE DecodeRvalue(At(cmd, 1), c)
             fnstr == d.r
             c1    == d.ctx
         IN  IF Raised(c1) THEN d
             ELSE IF Len(c1.evobjs) = 0 THEN Ret("", Raise(c1, "IndexError"))
             ELSE
             LET callfn == IF tok THEN get_evobj(c1) \o "." \o At(cmd, 1).v
                           ELSE get_evobj(c1) \o "[" \o fnstr \o "]"
                 fnbase0  == ";(" \o callfn \o " or " \o get_evobj(c1) \o ".any)"
                 comment0 == "--[call \"" \o Inner(fnstr) \o "\"]"
                 direct   == InSeq("[DIRECT]", tags)
                 fnbase1  == IF direct THEN callfn ELSE fnbase0
                 comment1 == IF direct THEN comment0 \o " [DIRECT]" ELSE comment0
                 isself   == get_evobj(c1) = "__self"
                 c2 == IF isself
                       THEN funccache_add(c1, "local __self = " \o c1.root_evobj \o " --[this script]")
                       ELSE c1
                 known   == tok /\ At(cmd, 1).v \in c1.self_evnames
                 fnbase2 == IF isself /\ tok
                            THEN (IF known THEN callfn ELSE "__self.any")
                            ELSE fnbase1
                 comment2 == IF isself /\ tok
                             THEN (IF known THEN "" ELSE comment1 \o " [doesn't exist, so any]")
                             ELSE comment1
                 g == op_call_tags(tags, 1, fnbase2, comment2, fnstr, c2)
             IN  IF Raised(c2) THEN Ret("", c2)
                 ELSE Ret(g.r[1] \o "(__actor, event, " \o fnstr \o ") " \o g.r[2], g.ctx)

op_mimic(cmd, c) ==
    LET o    == optimize_name_ref(cmd, 1)
        cmd1 == o.cmd
    IN  IF PyLen(cmd1) <= 1 THEN Ret3("", Raise(c, "IndexError"), cmd1)
        ELSE IF o.r \/ IsInt(At(cmd1, 1))
        THEN LET s1 == "do -- (mimic)\n"
                 c1 == [c EXCEPT !.indent = @ + 1]
                 d  == DecodeRvalue(At(cmd1, 1), c1)
                 s2 == s1 \o gi(c1) \o "local __mimic_target__ = (__pulp.tiles["
                          \o d.r \o "] or __pulp.EMPTY).script;\n"
                 s3 == s2 \o gi(d.ctx)
                          \o "(__mimic_target__[__evname] or __mimic_target__.any)(__actor, event, __evname)\n"
                 c2 == [d.ctx EXCEPT !.indent = @ - 1]
             IN  IF Raised(d.ctx) THEN Ret3("", d.ctx, cmd1)
                 ELSE Ret3(s3 \o gi(c2) \o "end", c2, cmd1)
        ELSE LET s1 == "do -- (mimic)\n"
                 c1 == [c EXCEPT !.indent = @ + 1]
                 d  == DecodeRvalue(At(cmd1, 1), c1)
                 s2 == s1 \o gi(c1) \o "local __mimic_target__ = __pulp:getScript("
                          \o d.r \o ") or __pulp.EMPTY;\n"
                 s3 == s2 \o gi(d.ctx)
                          \o "(__mimic_target__[__evname] or __mimic_target__.any)(__actor, event, __evname)\n"
                 c2 == [d.ctx EXCEPT !.indent = @ - 1]
             IN  IF Raised(d.ctx) THEN Ret3("", d.ctx, cmd1)
                 ELSE Ret3(s3 \o gi(c2) \o "end", c2, cmd1)

\* the body of a tell: push the dispatch object, compile the block as a
\* function scope, pop
TellBody(cmd, c) ==
    LET c1 == push_evobj([c EXCEPT !.indent = @ + 1], "__actor.script")
        b  == TranspileCommands(At(At(cmd, 2), 1), c1, TRUE)
        c2 == [pop_evobj(b.ctx) EXCEPT !.indent = @ - 1]
        s1 == b.r \o gi(c2) \o "end\n"
        c3 == [c2 EXCEPT !.indent = @ - 1]
    IN  IF Raised(b.ctx) THEN b
        ELSE Ret(s1 \o gi(c3) \o "end\n", c3)

op_tell(cmd, c) ==
    IF PyLen(cmd) <= 1 THEN Ret3("", Raise(c, "IndexError"), cmd)
    ELSE IF IsList(At(cmd, 1)) /\ PyLen(At(cmd, 1)) = 0 THEN Ret3("", Raise(c, "IndexError"), cmd)
    ELSE IF IsList(At(cmd, 1)) /\ EqStr(At(At(cmd, 1), 0), "xy")
    THEN \* inline version of 'tell x,y to'
         LET s0 == "do --[tell x,y to]\n"
             c1 == [c EXCEPT !.indent = @ + 1]
         IN  IF PyLen(cmd) <= 2 \/ ~IsList(At(cmd, 2)) \/ PyLen(At(cmd, 1)) <= 2
             THEN Ret3("", Raise(c1, "IndexError"), cmd)
             ELSE IF ~IsBlockRef(At(cmd, 2)) THEN Ret3("", Raise(c1, "AssertionError"), cmd)
             ELSE LET y  == DecodeRvalue(At(At(cmd, 1), 2), c1)
                      x  == DecodeRvalue(At(At(cmd, 1), 1), y.ctx)
                      s1 == s0 \o gi(c1) \o "local __actor = __roomtiles[" \o y.r \o "]["
                               \o x.r \o "]\n"
                      s2 == s1 \o gi(x.ctx) \o "if __actor and __actor.tile then\n"
                      b  == TellBody(cmd, x.ctx)
                  IN  IF Raised(y.ctx) THEN Ret3("", y.ctx, cmd)
                      ELSE IF Raised(x.ctx) THEN Ret3("", x.ctx, cmd)
                      ELSE Ret3(s2 \o b.r, b.ctx, cmd)
    ELSE IF /\ IsList(At(cmd, 1)) /\ EqStr(At(At(cmd, 1), 0), "get")
            /\ PyLen(At(cmd, 1)) > 1 /\ IsStr(At(At(cmd, 1), 1))
            /\ At(At(cmd, 1), 1).v \in {"event.room", "event.game", "event.player"}
    THEN \* inline version of 'tell event.X to'
         LET target == IF At(At(cmd, 1), 1).v = "event.player" THEN "__pulp.player"
                       ELSE At(At(cmd, 1), 1).v
             s0 == "do --[tell " \o target \o " to]\n"
             c1 == [c EXCEPT !.indent = @ + 1]
         IN  IF PyLen(cmd) <= 2 \/ ~IsList(At(cmd, 2)) THEN Ret3("", Raise(c1, "IndexError"), cmd)
             ELSE IF ~IsBlockRef(At(cmd, 2)) THEN Ret3("", Raise(c1, "AssertionError"), cmd)
             ELSE LET s1 == s0 \o gi(c1) \o "local __actor = " \o target \o "\n"
                      s2 == s1 \o gi(c1) \o "if __actor then\n"
                      b  == TellBody(cmd, c1)
                  IN  Ret3(s2 \o b.r, b.ctx, cmd)
    ELSE LET o  == optimize_name_ref(cmd, 1)
             c1 == push_evobj(c, "__actor.script")
             f  == OpexFunc(o.cmd, "tell", "__fn_", c1)
         IN  IF Raised(f.ctx) THEN Ret3("", f.ctx, o.cmd)
             ELSE Ret3(f.r, pop_evobj(f.ctx), o.cmd)

\* key, value = conf.split("="): anything but one "=" raises
commentconfigure(c, mode, conf) ==
    IF Count(conf, "=") # 1 THEN Raise(c, "ValueError")
    ELSE LET p     == CHOOSE i \in 1..Len(conf) : Char(conf, i) = "="
             key   == Strip(SubSeq(conf, 1, p - 1))
             value == Strip(Drop(conf, p))
         IN  IF mode = "PTL"
             THEN [c EXCEPT !.ext_ptl =
                      (key :> (IF value \in {"0", "False", "false"}
                               THEN [t |-> "bool", v |-> FALSE] ELSE S(value))) @@ @]
             ELSE IF mode = "PDXINFO"
             THEN [c EXCEPT !.ext_pdxinfo = (key :> S(value)) @@ @]
             ELSE c

\* ctx.comments_block[idx], or the default where idx is past the end
CommentAt(c, idx) ==
    IF idx < Len(c.comments_block) THEN c.comments_block[idx + 1] ELSE "<comment missing>"

comment(cmd, prevline, c) ==
    IF ~(PyLen(cmd) > 1 /\ IsInt(At(cmd, 1)) /\ At(cmd, 1).v >= 0) THEN Ret("", Raise(c, "TypeError"))
    ELSE LET idx     == At(cmd, 1).v
             text    == IF idx < Len(c.comments_block) THEN c.comments_block[idx + 1]
                        ELSE "<comment missing>"
             multi   == Contains(text, "\n")
             s0      == IF multi THEN "--[[" ELSE "--"
             stripcomment == Strip(text)
         IN  IF StartsWith(stripcomment, "[LUA]")
             THEN LET raw == Drop(stripcomment, Len("[LUA]"))
                  IN  Ret(IF StartsWith(raw, " ") THEN Drop(raw, 1) ELSE raw, c)
             ELSE LET c1 == IF StartsWith(stripcomment, "[PDXINFO]")
                            THEN commentconfigure(c, "PDXINFO",
                                     Strip(Drop(stripcomment, Len("[PDXINFO]"))))
                            ELSE c
                      c2 == IF Raised(c1) THEN c1
                            ELSE IF StartsWith(stripcomment, "[PTL]")
                            THEN commentconfigure(c1, "PTL", Strip(Drop(stripcomment, Len("[PTL]"))))
                            ELSE c1
                  IN  Ret(s0 \o (IF prevline THEN "^" ELSE "") \o text
                             \o (IF multi THEN "]]" ELSE ""), c2)

IsCommentCmd(cmd) ==
    IsList(cmd) /\ PyLen(cmd) > 0 /\ IsStr(At(cmd, 0)) /\ At(cmd, 0).v \in {"#", "#$"}

RECURSIVE get_next_cmds_tags_loop(_, _, _, _)
\* the loop of get_next_cmds_tags over cmds, from element k on
get_next_cmds_tags_loop(c, cmds, k, tags) ==
    IF k >= PyLen(cmds) THEN tags
    ELSE LET cmd == At(cmds, k)
         IN  IF IsList(cmd)
             THEN IF /\ IsCommentCmd(cmd) /\ PyLen(cmd) > 1 /\ IsInt(At(cmd, 1))
                     /\ At(cmd, 1).v < Len(c.comments_block)
                     /\ StartsWith(Strip(CommentAt(c, At(cmd, 1).v)), "[")
                  THEN get_next_cmds_tags_loop(c, cmds, k + 1,
                           Append(tags, Strip(CommentAt(c, At(cmd, 1).v))))
                  ELSE get_next_cmds_tags_loop(c, cmds, k + 1, tags)
             ELSE tags

get_next_cmds_tags(c, cmds) == get_next_cmds_tags_loop(c, cmds, 0, <<>>)

\* the result of a command that leaves the command as it is
Line(d, c, cmd) ==
    IF Raised(d.ctx) THEN Ret3("", d.ctx, cmd) ELSE Ret3(gi(c) \o d.r \o "\n", d.ctx, cmd)

transpile_command(cmd, c, next_cmds) ==
    IF ~(PyLen(cmd) > 0 /\ IsStr(At(cmd, 0))) THEN Ret3("", Raise(c, "IndexError"), cmd)
    ELSE
    LET op   == At(cmd, 0).v
        tags == get_next_cmds_tags(c, next_cmds)
    IN  IF op = "_" THEN Ret3("", c, cmd)
        ELSE IF op = "done" THEN Ret3(gi(c) \o "do return end\n", c, cmd)
        ELSE IF op = "set" THEN Line(op_set(cmd, "", c), c, cmd)
        ELSE IF op = "add" THEN Line(op_set(cmd, "+", c), c, cmd)
        ELSE IF op = "sub" THEN Line(op_set(cmd, "-", c), c, cmd)
        ELSE IF op = "div" THEN Line(op_set(cmd, "/", c), c, cmd)
        ELSE IF op = "mul" THEN Line(op_set(cmd, "*", c), c, cmd)
        ELSE IF op = "inc" THEN Line(op_inc(cmd, "+=1", c), c, cmd)
        ELSE IF op = "dec" THEN Line(op_inc(cmd, "-=1", c), c, cmd)
        ELSE IF op = "random" THEN Line(op_random(cmd, c), c, cmd)
        ELSE IF op = "if" THEN Line(OpBlock(cmd, "if", "then", "end", c), c, cmd)
        ELSE IF op = "while" THEN Line(OpBlock(cmd, "while", "do", "end", c), c, cmd)
        ELSE IF op = "call" THEN Line(op_call(cmd, c, tags), c, cmd)
        ELSE IF op = "emit" THEN Line(op_emit(cmd, c), c, cmd)
        ELSE IF op = "mimic"
        THEN LET m == op_mimic(cmd, c) IN Line(m, c, m.cmd)
        ELSE IF op = "tell"
        THEN LET m == op_tell(cmd, c) IN Line(m, c, m.cmd)
        ELSE IF op \in funclist THEN Line(OpexFunc(cmd, op, "__fn_", c), c, cmd)
        ELSE IF op \in {"#", "#$"} THEN Line(comment(cmd, op = "#$", c), c, cmd)
        ELSE Ret3(gi(c) \o "--unknown command code '" \o op \o "'\n",
                  log_error(c, "unknown command code: " \o op), cmd)

\* the printable ASCII characters in code order: 32 to 95, and 97 to 126
AsciiLow  == " !\"#$%&'()*+,-./0123456789:;<=>?@ABCDEFGHIJKLMNOPQRSTUVWXYZ[\\]^_"
AsciiHigh == "abcdefghijklmnopqrstuvwxyz{|}~"

\* ord(ch), for the characters the generated text is made of
Ord(ch) ==
    IF ch = "\n" THEN 10
    ELSE IF ch = "\t" THEN 9
    ELSE IF Contains(AsciiLow, ch)
    THEN 31 + (CHOOSE i \in 1..Len(AsciiLow) : Char(AsciiLow, i) = ch)
    ELSE 96 + (CHOOSE i \in 1..Len(AsciiHigh) : Char(AsciiHigh, i) = ch)

\* a < b as Python compares two str: by the first place they differ at
StrLess(a, b) ==
    \/ Len(a) < Len(b) /\ SubSeq(b, 1, Len(a)) = a
    \/ \E i \in 1..(IF Len(a) < Len(b) THEN Len(a) ELSE Len(b)) :
          /\ SubSeq(a, 1, i - 1) = SubSeq(b, 1, i - 1)
          /\ Ord(Char(a, i)) < Ord(Char(b, i))

RECURSIVE PrependLargestFirst(_, _, _)
\* the loop over sorted(..., reverse=True)
PrependLargestFirst(frame, s, c) ==
    IF frame = {} THEN s
    ELSE LET cached == CHOOSE x \in frame : \A y \in frame \ {x} : StrLess(y, x)
         IN  PrependLargestFirst(frame \ {cached}, gi(c) \o cached \o "\n" \o s, c)

RECURSIVE PrependSorted(_, _, _)
\* for cached in sorted(list(frame)): s = ctx.gi() + cached + "\n" + s
PrependSorted(frame, s, c) ==
    IF frame = {} THEN s
    ELSE LET cached == CHOOSE x \in frame : \A y \in frame \ {x} : StrLess(x, y)
         IN  PrependSorted(frame \ {cached}, gi(c) \o cached \o "\n" \o s, c)

\* the loop of transpile_commands, from command i on.  commands is
\* ctx.blocks[blockidx] at every call of transpile_commands, so the list is
\* named by its index and a command changed in place is changed in the table.
transpile_commands_loop(blockidx, i, s, c) ==
    LET commands == BlockAt(c, blockidx)
    IN  IF i >= PyLen(commands) THEN Ret(s, c)
        ELSE IF ~IsList(At(commands, i)) THEN transpile_commands_loop(blockidx, i + 1, s, c)
        ELSE LET r  == TranspileCommand(At(commands, i), c, From(commands, i + 1))
                 c1 == [r.ctx EXCEPT !.blocks[blockidx + 1] = SetAt(@, i, r.cmd)]
             IN  IF Raised(c1) THEN Ret("", c1)
                 ELSE transpile_commands_loop(blockidx, i + 1, s \o r.r, c1)

\* idx is the operand of ctx.blocks[idx] in the caller
transpile_commands(idx, c, has_funccache) ==
    IF ~HasBlock(c, idx) THEN Ret("", Raise(c, "IndexError"))
    ELSE LET c1 == IF has_funccache THEN push_funccache(c) ELSE c
             b  == transpile_commands_loop(idx.v, 0, "", c1)
         IN  IF Raised(b.ctx) THEN b
             ELSE IF has_funccache
             THEN Ret(PrependSorted(b.ctx.funccache[Len(b.ctx.funccache)], b.r, b.ctx),
                      pop_funccache(b.ctx))
             ELSE b

\* a filter that keeps the comments and the empty commands
Undecorated_all(block) == SelectSeq(block.v, LAMBDA x : IsList(x))
\* list(filter(lambda x: type(x) == list and x[0] not in ["_", "#", "#$"], block))
Undecorated(block) ==
    SelectSeq(block.v, LAMBDA x : IsList(x) /\ ~(IsStr(At(x, 0)) /\ At(x, 0).v \in {"_", "#", "#$"}))

transpile_event(evobj, evname, c, blockidx, evobjname, comments_block, evnames) ==
    LET evobj_ == "__pulp:getScript(\"" \o evobj \o "\")"
        s0 == IF istoken(S(evname))
              THEN evobj_ \o "." \o evname \o " = function(__actor, event, __evname)\n"
              ELSE evobj_ \o "[\"" \o evname \o "\"] = function(__actor, event, __evname)\n"
    IN  IF ~HasBlock(c, N(blockidx)) THEN Ret("", Raise(c, "IndexError"))
        ELSE LET c1 == push_evobj([c EXCEPT !.self_evnames = evnames,
                                            !.comments_block = comments_block], "__self")
                 c2 == [c1 EXCEPT !.root_evobj = IF evobjname # "" THEN evobjname ELSE evobj_]
                 b  == TranspileCommands(N(blockidx), c2, TRUE)
                 c3 == pop_evobj(b.ctx)
                 s1 == s0 \o b.r \o "end\n"
                 \* optimization for one-line-only mimics
                 undecorated_block == Undecorated(BlockAt(c3, blockidx))
             IN  IF Raised(b.ctx) THEN b
                 ELSE IF /\ Len(undecorated_block) = 1
                         /\ EqStr(At(undecorated_block[1], 0), "mimic")
                         /\ PyLen(undecorated_block[1]) > 1
                         /\ IsList(At(undecorated_block[1], 1))
                         /\ EqStr(At(At(undecorated_block[1], 1), 0), "optimized-id")
                 THEN Ret(s1, [c3 EXCEPT !.full_mimics =
                                  Append(@, <<evobj, evname, At(At(undecorated_block[1], 1), 2)>>)])
                 ELSE Ret(s1, c3)

Call(f, a) ==
    CASE f = "decode_rvalue"      -> decode_rvalue(a[1], a[2])
      [] f = "opex_func"          -> opex_func(a[1], a[2], a[3], a[4])
      [] f = "transpile_commands" -> transpile_commands(a[1], a[2], a[3])
      [] f = "transpile_command"  -> transpile_command(a[1], a[2], a[3])
      [] f = "op_block"           -> op_block(a[1], a[2], a[3], a[4], a[5])
      [] f = "transpile_event"    -> transpile_event(a[1], a[2], a[3], a[4], a[5], a[6], a[7])

(***************************************************************************)
(* The driver                                                              *)
(*                                                                         *)
(* ctx is the PulpScriptContext in use, with the block table the driver    *)
(* gave it (ctx.blocks); a new context is given the same table.  prog is   *)
(* the rest of the input: the comment table, the known handler names and   *)
(* the handlers to compile.  out is what the calls made so far returned,   *)
(* in call order: the call, whether the context was a new one, and the     *)
(* returned value.  A call that raises returns nothing, and leaves ctx as  *)
(* it was when the exception left the module.                              *)
(***************************************************************************)
\* calls made to one context and never undone, at most
MaxRuns == 2

Fresh(c) == [NewCtx EXCEPT !.blocks = c.blocks]

Handler(evobj, evname, blockidx, evobjname) ==
    [evobj |-> evobj, evname |-> evname, blockidx |-> blockidx, evobjname |-> evobjname]

CallOf(h) == <<"transpile_event", h.evobj, h.evname, ToString(h.blockidx), h.evobjname>>

\* ctx = PulpScriptContext(); ctx.blocks = blocks
NewContext ==
    /\ ctx # Fresh(ctx)
    /\ ctx' = Fresh(ctx)
    /\ UNCHANGED <<out, prog>>

\* transpile_event(evobj, evname, ctx, blockidx, evobjname, comments_block, evnames)
TranspileEvent(h) ==
    /\ ~Raised(ctx)
    /\ Len(out) < MaxRuns
    /\ LET r == Call("transpile_event", <<h.evobj, h.evname, ctx, h.blockidx, h.evobjname,
                                               prog.comments, prog.evnames>>)
       IN  /\ ctx' = r.ctx
           /\ out' = IF Raised(r.ctx) THEN out
                     ELSE Append(out, [call |-> CallOf(h), fresh |-> ctx = Fresh(ctx), r |-> r.r])
    /\ UNCHANGED prog

\* ctx.pingvar(varname)
Pingvar(varname) ==
    /\ Len(out) < MaxRuns
    /\ LET r == pingvar(ctx, varname)
       IN  /\ ctx' = r.ctx
           /\ out' = Append(out, [call |-> <<"pingvar", varname>>, fresh |-> ctx = Fresh(ctx), r |-> r.r])
    /\ UNCHANGED prog

Next == NewContext \/ \E h \in prog.handlers : TranspileEvent(h)

\* a run that starts from the program p
Start(p) ==
    /\ ctx = [NewCtx EXCEPT !.blocks = p.blocks]
    /\ out = <<>>
    /\ prog = [comments |-> p.comments, evnames |-> p.evnames, handlers |-> p.handlers]

Program(blks, comments, evnames, handlers) ==
    [blocks |-> blks, comments |-> comments, evnames |-> evnames, handlers |-> handlers]

(***************************************************************************)
(* Inputs: command trees as the parser writes them                         *)
(***************************************************************************)
Get(name)       == L(<<S("get"), S(name)>>)
Blk(j)          == L(<<S("block"), N(j)>>)
SetCmd(name, e) == L(<<S("set"), S(name), e>>)
CallCmd(name)   == L(<<S("call"), S(name)>>)
Cmp(op, l, r)   == L(<<S(op), l, r>>)

TheHandler == Handler("player", "update", 0, "")

(***************************************************************************)
(* Nested handlers: a chain of blocks, each holding one construct around   *)
(* the next block, under a handler body that starts with the commands pre  *)
(* and down to a last block leaf.  The blocks e and e + 1 are the bodies   *)
(* of the else and elseif branches.                                        *)
(***************************************************************************)
NestKinds == {"if", "ifelif", "while", "tellxy", "tellev", "tellgen", "sub"}

\* nesting depth of the handlers, at most
MaxDepth == 2

Wrap(kind, j, e) ==
    CASE kind = "if"      -> L(<<S("if"), Cmp("eq", S("n"), N(1)), Blk(j)>>)
      [] kind = "ifelif"  -> L(<<S("if"), Cmp("neq", S("n"), S("a b")), Blk(e),
                                 L(<<S("elseif"), Cmp("lte", S("m"), N(2)), Blk(j)>>),
                                 L(<<S("else"), Blk(e + 1)>>)>>)
      [] kind = "while"   -> L(<<S("while"), Cmp("lt", S("event.x"), N(9)), Blk(j)>>)
      [] kind = "tellxy"  -> L(<<S("tell"), L(<<S("xy"), N(1), Get("k")>>), Blk(j)>>)
      [] kind = "tellev"  -> L(<<S("tell"), Get("event.room"), Blk(j)>>)
      [] kind = "tellgen" -> L(<<S("tell"), S("wall"), Blk(j)>>)
      [] kind = "sub"     -> L(<<S("say"), S("hi"), Blk(j)>>)

\* the commands before the outermost construct, and the innermost block
NestEnds ==
    { [pre |-> <<>>, leaf |-> <<SetCmd("b", Get("event.x")), CallCmd("nope")>>],
      [pre |-> <<SetCmd("a", Get("event.x"))>>,
       leaf |-> <<SetCmd("b", Get("event.x")), SetCmd("c", Get("event.y"))>>],
      [pre |-> <<CallCmd("update"), SetCmd("a", Get("event.px"))>>,
       leaf |-> <<SetCmd("b", Get("event.dx")), L(<<S("inc"), S("c")>>)>>] }

\* every construct inside every construct, the two alternating down to depth d
NestKindSeqs ==
    {[i \in 1..d |-> IF i % 2 = 1 THEN a ELSE b] : a \in NestKinds, b \in NestKinds, d \in 1..MaxDepth}

NestProgram(kinds, pre, leaf) ==
    LET d == Len(kinds)
    IN  Program([i \in 1..(d + 3) |->
                    IF i <= d
                    THEN L((IF i = 1 THEN pre ELSE <<>>) \o <<Wrap(kinds[i], i, d + 1)>>
                           \o (IF i = 1 THEN <<CallCmd("update")>> ELSE <<>>))
                    ELSE IF i = d + 1 THEN L(leaf)
                    ELSE IF i = d + 2 THEN L(<<SetCmd("e", Get("event.y"))>>)
                    ELSE L(<<SetCmd("e", Get("event.tile"))>>)],
                <<>>, {"update"}, {TheHandler})

InitNest ==
    \E kinds \in NestKindSeqs, ends \in NestEnds :
        Start(NestProgram(kinds, ends.pre, ends.leaf))

SpecNest == InitNest /\ [][Next]_vars


(***************************************************************************)
(* Stack hygiene                                                           *)
(***************************************************************************)
\* a context in the middle of a compilation: two dispatch objects and two
\* cache frames, the upper one holding a binding
Busy(c) ==
    push_evobj(push_evobj(
        funccache_add(push_funccache(funccache_add(push_funccache(c), "local __self = x")),
                      "local __event_y = __actor.y or __pulp.player.y"),
        "__self"), "__actor.script")

\* transpile_commands(ctx.blocks[idx], c, has_funccache) leaves both stacks of c as
\* they were: the dispatch objects the same, the cache frames below the top one
\* the same, and the top frame the same when the block has a frame of its own
Restores(idx, c, has_funccache) ==
    LET r == Call("transpile_commands", <<N(idx), c, has_funccache>>).ctx
        n == Len(c.funccache)
    IN  /\ ~Raised(r)
        /\ r.evobjs = c.evobjs
        /\ Len(r.funccache) = n
        /\ SubSeq(r.funccache, 1, n - 1) = SubSeq(c.funccache, 1, n - 1)
        /\ has_funccache => r.funccache = c.funccache
        /\ r.indent = c.indent

\* C1: for a well-formed handler body with if/elseif/else, while, the three
\* forms of tell and inline subroutines nested in one another, transpile_event
\* returns (raises nothing) with the dispatch-object stack and the cache-frame
\* stack as long as they were before the call, which is empty, as every call
\* starts from stacks the calls before it left empty; and compiling any block
\* of the table in the middle of a compilation leaves the entries that were on
\* the two stacks before it in place, so each push is undone by the pop that
\* matches it.
C1_StacksRestored ==
    /\ ~Raised(ctx)
    /\ ctx.evobjs = <<>>
    /\ ctx.funccache = <<>>
    /\ out = <<>> =>
          \A i \in 1..Len(ctx.blocks), f \in BOOLEAN : Restores(i - 1, Busy(ctx), f)

\* a handler with a tell inside an inline subroutine has been compiled
C1_Witness ==
    /\ Len(out) = 1
    /\ Contains(out[1].r, "function(__actor, event, evname)\n      do --[tell x,y to]")
    /\ ctx.evobjs = <<>>
    /\ ctx.funccache = <<>>


(***************************************************************************)
(* Generated text, line by line                                            *)
(***************************************************************************)
\* the lines of a text, without their "\n"
Lines(t) ==
    LET nl     == {i \in 1..Len(t) : Char(t, i) = "\n"}
        starts == {1} \cup {i + 1 : i \in {j \in nl : j < Len(t)}}
        nth(k)  == CHOOSE p \in starts : Cardinality({q \in starts : q < p}) = k - 1
        stop(p) == IF \E e \in nl : e >= p
                   THEN CHOOSE e \in nl : e >= p /\ \A f \in nl : f >= p => e <= f
                   ELSE Len(t) + 1
    IN  [k \in 1..Cardinality(starts) |-> SubSeq(t, nth(k), stop(nth(k)) - 1)]

EndsWith(s, p) == Len(s) >= Len(p) /\ SubSeq(s, Len(s) - Len(p) + 1, Len(s)) = p

\* a line that a cache frame gave: the binding of a special variable or of __self
IsCached(line) ==
    StartsWith(LStrip(line), "local __event_") \/ StartsWith(LStrip(line), "local __self = ")

\* the k-th line opens a function scope: the handler's first line, the guard of
\* an inlined tell, or the first line of an inline subroutine
OpensScope(l, k) ==
    \/ k = 1
    \/ LStrip(l[k]) \in {"if __actor then", "if __actor and __actor.tile then"}
    \/ EndsWith(l[k], "function(__actor, event, evname)")

Indent(line) == Len(line) - Len(LStrip(line))

\* every binding a frame gave stands in the prologue of a scope: only bindings of
\* the same frame between it and the line that opens the scope
InPrologues(l) ==
    \A i \in 1..Len(l) :
        IsCached(l[i]) =>
            /\ i > 1
            /\ OpensScope(l, i - 1) \/ (IsCached(l[i - 1]) /\ Indent(l[i - 1]) = Indent(l[i]))

\* two bindings, one right above the other in one prologue
Adjacent(l, i) == i > 1 /\ IsCached(l[i]) /\ IsCached(l[i - 1])

\* C3 as claimed: the bindings of a frame all stand before the body, in
\* ascending lexicographic order from top to bottom.
C3_Ascending ==
    \A k \in 1..Len(out) :
        LET l == Lines(out[k].r)
        IN  /\ InPrologues(l)
            /\ \A i \in 1..Len(l) : Adjacent(l, i) => StrLess(l[i - 1], l[i])

\* C3, amended: in the text of every function scope (the handler, the body of
\* a tell, an inline subroutine) the bindings the frame collected all stand
\* before every body statement, and stand in descending lexicographic order
\* from top to bottom, whatever order they were added in: the sorted bindings
\* are prepended one at a time, so the largest ends on top.
C3_Descending ==
    \A k \in 1..Len(out) :
        LET l == Lines(out[k].r)
        IN  /\ InPrologues(l)
            /\ \A i \in 1..Len(l) : Adjacent(l, i) => StrLess(l[i], l[i - 1])

\* a handler that reads event.x and then event.y has been compiled: the frame
\* got the binding of __event_x first, and the text has it last
C3_Witness ==
    /\ Len(out) = 1
    /\ Contains(out[1].r, "--[this script]\n  local __event_y = __actor.y or __pulp.player.y\n"
                          \o "  local __event_x = __actor.x or __pulp.player.x\n  a = __event_x\n")


(***************************************************************************)
(* Reads of a special variable, found in the command trees                 *)
(***************************************************************************)
RECURSIVE ExprReads(_, _)
\* the expression e reads the variable name in the scope it stands in; a block
\* operand is an inline subroutine, a scope of its own
ExprReads(e, name) ==
    /\ IsList(e)
    /\ PyLen(e) > 0
    /\ IF EqStr(At(e, 0), "get") THEN EqStr(At(e, 1), name)
       ELSE IF EqStr(At(e, 0), "block") THEN FALSE
       ELSE \E k \in 1..(PyLen(e) - 1) : ExprReads(At(e, k), name)

\* a condition names a variable on its left, or holds expressions
CondReads(cond, name) ==
    \/ istoken(At(cond, 1)) /\ At(cond, 1).v = name
    \/ ExprReads(At(cond, 1), name)
    \/ ExprReads(At(cond, 2), name)

RECURSIVE BlockReads(_, _, _)
RECURSIVE CmdReads(_, _, _)
\* the command reads name in the scope it stands in: the bodies of if, elseif,
\* else and while belong to that scope, the body of a tell does not
CmdReads(b, cmd, name) ==
    IF At(cmd, 0).v \in {"if", "while", "elseif"}
    THEN \/ CondReads(At(cmd, 1), name)
         \/ BlockReads(b, At(At(cmd, 2), 1).v, name)
         \/ \E k \in 3..(PyLen(cmd) - 1) :
               IF EqStr(At(At(cmd, k), 0), "else")
               THEN BlockReads(b, At(At(At(cmd, k), 1), 1).v, name)
               ELSE CmdReads(b, At(cmd, k), name)
    ELSE \E k \in 1..(PyLen(cmd) - 1) : ExprReads(At(cmd, k), name)

\* block j of the table b reads name in the scope the block stands in
BlockReads(b, j, name) ==
    \E i \in 1..Len(b[j + 1].v) : IsList(b[j + 1].v[i]) /\ CmdReads(b, b[j + 1].v[i], name)

\* the blocks that are function scopes: the handler's, and each block that is
\* the body of a tell or an inline subroutine (an operand of a command other
\* than if and while)
Scopes(b, h) ==
    {h} \cup {j \in 0..(Len(b) - 1) :
                \E i \in 1..Len(b) : \E n \in 1..Len(b[i].v) :
                    LET cmd == b[i].v[n]
                    IN  /\ IsList(cmd)
                        /\ At(cmd, 0).v \notin {"if", "while"}
                        /\ \E k \in 1..(PyLen(cmd) - 1) : At(cmd, k) = Blk(j)}

\* the handler that the k-th call compiled
HandlerOf(k) == CHOOSE h \in prog.handlers : CallOf(h) = out[k].call

DeclX == "local __event_x = __actor.x or __pulp.player.x"

\* the binding of __event_x stands in the handler's own prologue
InHandlerPrologue(l) ==
    \E i \in 2..Len(l) :
        /\ l[i] = "  " \o DeclX
        /\ \A m \in 2..(i - 1) : IsCached(l[m]) /\ Indent(l[m]) = 2

\* C4 as claimed: a handler that reads event.x anywhere, at any depth, has
\* exactly one binding of __event_x in its text, in the handler's prologue.
C4_OneDeclaration ==
    \A k \in 1..Len(out) :
        (\E j \in 0..(Len(ctx.blocks) - 1) : BlockReads(ctx.blocks, j, "event.x")) =>
            /\ Count(out[k].r, DeclX) = 1
            /\ InHandlerPrologue(Lines(out[k].r))

\* C4, amended: the text of a handler has exactly one binding of __event_x for
\* each function scope that reads event.x in its own body (the handler, the
\* body of each of the three forms of tell, each inline subroutine; the bodies
\* of if, elseif, else and while belong to the scope around them), however many
\* times the scope reads it, and none for a scope that does not; each binding
\* stands in the prologue of its scope, the handler's in the handler's prologue.
C4_OnePerScope ==
    \A k \in 1..Len(out) :
        LET l == Lines(out[k].r)
            h == HandlerOf(k).blockidx
        IN  /\ Count(out[k].r, DeclX)
                 = Cardinality({j \in Scopes(ctx.blocks, h) : BlockReads(ctx.blocks, j, "event.x")})
            /\ InPrologues(l)
            /\ BlockReads(ctx.blocks, h, "event.x") <=> InHandlerPrologue(l)

\* a handler has been compiled that reads event.x twice in its own body (in an
\* assignment and in the condition of a while) and once more in the body of a
\* tell inside the while: two bindings, one in each prologue
C4_Witness ==
    /\ Len(out) = 1
    /\ Contains(out[1].r, "  a = __event_x\n  while __event_x < 9 do\n")
    /\ Contains(out[1].r, "if __actor then\n        local __event_y = __actor.y or __pulp.player.y\n"
                          \o "        " \o DeclX \o "\n        b = __event_x\n")
    /\ Count(out[1].r, DeclX) = 2
    /\ InHandlerPrologue(Lines(out[1].r))


(***************************************************************************)
(* Handlers around a mimic: one handler, whose body is block 0             *)
(***************************************************************************)
Mimic(target) == L(<<S("mimic"), target>>)
Tell(target, j) == L(<<S("tell"), target, Blk(j)>>)
Comment(idx)  == L(<<S("#"), N(idx)>>)
Empty         == L(<<S("_")>>)

MimicBodies ==
    { <<Mimic(S("wall"))>>,
      <<Mimic(S("ghost"))>>,
      <<Mimic(N(3))>>,
      <<Mimic(Get("target"))>>,
      <<Empty, Comment(0), Mimic(S("door"))>>,
      <<Mimic(S("wall")), SetCmd("a", N(1))>>,
      <<Mimic(S("wall")), Mimic(S("door"))>>,
      <<Tell(S("wall"), 1)>>,
      <<Tell(S("ghost"), 1), Comment(0)>>,
      <<SetCmd("a", N(1))>>,
      <<Comment(0)>> }

MimicHandlers == {Handler("player", "update", 0, ""), Handler("wall", "my-event", 0, "")}

MimicProgram(body, h) ==
    Program(<<L(body), L(<<SetCmd("a", N(1))>>)>>, <<"a note">>, {"update"}, {h})

InitMimic == \E body \in MimicBodies, h \in MimicHandlers : Start(MimicProgram(body, h))

SpecMimic == InitMimic /\ [][Next]_vars

\* C2 as claimed: two calls of transpile_event for the same handler of the
\* same block table, each on a new context, return the same text.
C2_SameText ==
    \A i \in 1..Len(out), j \in 1..Len(out) :
        (out[i].fresh /\ out[j].fresh /\ out[i].call = out[j].call) => out[i].r = out[j].r

\* the target of a mimic or tell command names a known tile: the name as the
\* parser wrote it, or the node an earlier compilation wrote in its place
NamesTile(cmd) ==
    /\ PyLen(cmd) > 1
    /\ \/ IsStr(At(cmd, 1)) /\ At(cmd, 1).v \in DOMAIN tile_ids
       \/ /\ IsList(At(cmd, 1))
          /\ PyLen(At(cmd, 1)) = 3
          /\ EqStr(At(At(cmd, 1), 0), "optimized-id")
TileName(cmd) == IF IsStr(At(cmd, 1)) THEN At(cmd, 1).v ELSE At(At(cmd, 1), 2).v

\* the commands of a block other than comments and empty commands
Plain(block) ==
    SelectSeq(block.v, LAMBDA x : IsList(x) /\ At(x, 0).v \notin {"_", "#", "#$"})

\* the body of the handler h is one mimic of a known tile
OneMimic(c, h) ==
    LET body == Plain(c.blocks[h.blockidx + 1])
    IN  Len(body) = 1 /\ EqStr(At(body[1], 0), "mimic") /\ NamesTile(body[1])

\* a step that is a call of transpile_event that returned
Compiled == Len(out') = Len(out) + 1 /\ out'[Len(out')].call[1] = "transpile_event"

\* the record the call appended, with the target x
Recorded(x) ==
    LET h == CHOOSE g \in prog.handlers : CallOf(g) = out'[Len(out')].call
    IN  IF OneMimic(ctx, h)
        THEN ctx'.full_mimics
               = Append(ctx.full_mimics, <<h.evobj, h.evname, x[TileName(Plain(ctx.blocks[h.blockidx + 1])[1])]>>)
        ELSE ctx'.full_mimics = ctx.full_mimics

\* C7 as claimed: a handler whose commands, comments and empty commands
\* aside, are one mimic of a known tile appends one record (owner, event name,
\* numeric id of the tile); any other handler appends none.
C7_NumericTarget == [][Compiled => Recorded([n \in DOMAIN tile_ids |-> N(tile_ids[n])])]_vars

\* C7, amended: a handler whose commands, comments and empty commands aside,
\* are one mimic whose target is a name of the known-tile table appends exactly
\* one record to ctx.full_mimics in each compilation, and the record is (owner,
\* event name, name of the tile): the name as written in the source, not the
\* numeric id; any other handler body appends none.
C7_NamedTarget == [][Compiled => Recorded([n \in DOMAIN tile_ids |-> S(n)])]_vars

\* a handler whose body is a comment, an empty command and mimic "door" has
\* been compiled once, and the one record names the tile
C7_Witness ==
    /\ Len(out) = 1
    /\ ctx.full_mimics = << <<"player", "update", S("door")>> >>
    /\ Len(ctx.blocks[1].v) = 3

\* the text that C8 expects for the tile that cmd names
Annotated(cmd) ==
    "--[[(" \o TileName(cmd) \o ")]] " \o ToString(tile_ids[TileName(cmd)])

\* C8 as claimed: every compilation of a mimic or a generic tell whose target
\* is a name of the known-tile table, the first or a later one, writes the
\* target as the numeric id with the name in a comment, and a mimic indexes
\* the tile table with it and does not look the script up by name.
C8_PreResolved ==
    \A k \in 1..Len(out) :
        LET body == Plain(ctx.blocks[HandlerOf(k).blockidx + 1])
        IN  \A n \in 1..Len(body) :
                (At(body[n], 0).v \in {"mimic", "tell"} /\ NamesTile(body[n])) =>
                    /\ Contains(out[k].r, Annotated(body[n]))
                    /\ At(body[n], 0).v = "mimic" =>
                          /\ Contains(out[k].r, "(__pulp.tiles[" \o Annotated(body[n])
                                                   \o "] or __pulp.EMPTY).script")
                          /\ ~Contains(out[k].r, "__pulp:getScript(" \o Annotated(body[n]))


(***************************************************************************)
(* Calls of pingvar alone                                                  *)
(***************************************************************************)
NameHeads == {"", "_", "x", "PTLE_", "self"}
NameTails == {"", ".y", " y", "\"", "_x"}
\* names that begin with two underscores, and two that do not
Names == {"__" \o a \o b : a \in NameHeads, b \in NameTails} \cup {"x", "_x y"}

NextNames == NewContext \/ \E varname \in Names : Pingvar(varname)

InitNames == Start(Program(<<>>, <<>>, {}, {}))

SpecNames == InitNames /\ [][NextNames]_vars

\* names the generated text uses for itself
Internal ==
    {"__self", "__actor", "__evname", "__event_px", "__event_py", "__event_x", "__event_y",
     "__event_dx", "__event_dy", "__event_tile", "__mimic_target__", "__pulp", "__roomtiles",
     "__random", "__print", "__tostring", "__getTime", "__getSecondsSinceEpoch",
     "__floor", "__ceil", "__round", "__sin", "__cos", "__tan", "__tau",
     "__setcolour", "__fillcolours", "__fillrect", "__pix8scale"}

\* a step that is a call of pingvar
Pinged == Len(out') = Len(out) + 1 /\ out'[Len(out')].call[1] = "pingvar"

\* the call returned and recorded the name with the escape esc before it,
\* sanitized, and that is no name the generated text uses for itself
Escaped(esc) ==
    LET varname == out'[Len(out')].call[2]
        r       == out'[Len(out')].r
    IN  /\ r = sanitize_varname(esc \o varname)
        /\ ctx'.vars = ctx.vars \cup {r}
        /\ r \notin Internal

\* C5 as claimed: every name that begins with two underscores is returned and
\* recorded with one more underscore before it, and is then no internal name.
C5_OneUnderscore ==
    [][(Pinged /\ StartsWith(out'[Len(out')].call[2], "__")) => Escaped("_")]_vars

\* C5, amended: for every name that begins with two underscores, holds no "."
\* and does not begin with __PTLE_, pingvar returns and records in ctx.vars the
\* name with two more underscores before it (sanitized after that), which is
\* never a name the generated text uses for itself; a name that holds a "." or
\* begins with __PTLE_ is returned as it is and nothing is recorded.
C5_TwoUnderscores ==
    [][(Pinged /\ StartsWith(out'[Len(out')].call[2], "__")) =>
          LET varname == out'[Len(out')].call[2]
          IN  IF Contains(varname, ".") \/ StartsWith(varname, "__PTLE_")
              THEN out'[Len(out')].r = varname /\ ctx'.vars = ctx.vars
              ELSE Escaped("__")]_vars

\* pingvar has been called with __self and with a name that needs quoting
C5_Witness ==
    /\ Len(out) = 2
    /\ out[1].call = <<"pingvar", "__self">> /\ out[1].r = "____self"
    /\ out[2].call = <<"pingvar", "__x y">> /\ out[2].r = "_G[\"____x y\"]"
    /\ ctx.vars = {"____self", "_G[\"____x y\"]"}


(***************************************************************************)
(* Handlers that use one variable twice                                    *)
(***************************************************************************)
VarNames == {"score", "my var", "__x", "a\"b"}
VarOps   == {"set", "add", "sub", "mul", "div", "inc", "dec"}

\* name = name, and then op on name
VarBody(name, op) ==
    <<SetCmd(name, Get(name)),
      IF op \in {"inc", "dec"} THEN L(<<S(op), S(name)>>) ELSE L(<<S(op), S(name), N(1)>>)>>

InitVars ==
    \E name \in VarNames, op \in VarOps :
        Start(Program(<<L(VarBody(name, op))>>, <<>>, {"update"}, {TheHandler}))

SpecVars == InitVars /\ [][Next]_vars

\* the statements for op on the identifier id: the compound form, spaced or not
Statements(op, id) ==
    LET sym == [o \in VarOps |->
                  CASE o = "set" -> "" [] o \in {"add", "inc"} -> "+" [] o \in {"sub", "dec"} -> "-"
                    [] o = "mul" -> "*" [] o = "div" -> "/"][op]
    IN  {"  " \o id \o " " \o sym \o "= 1", "  " \o id \o sym \o "=1"}

\* C6 as claimed: the commands on one variable name all write the identifier
\* that pingvar returns for the name, in source order, the second one in the
\* compound-assignment form.
C6_SameIdentifier ==
    \A k \in 1..Len(out) :
        LET l    == Lines(out[k].r)
            body == ctx.blocks[1].v
            id   == pingvar(NewCtx, At(body[1], 1).v).r
        IN  /\ Len(l) = 4
            /\ l[2] = "  " \o id \o " = " \o id
            /\ l[3] \in Statements(At(body[2], 0).v, id)

(***************************************************************************)
(* Handlers with a tagged call, in the handler or in the body of a tell    *)
(***************************************************************************)
CallNames == {"update", "nope", "my event"}
CallTags  == {<<"[DIRECT]">>, <<" [DIRECT]\n">>, <<"note">>, <<"[SCRIPT:door]">>,
              <<"[DIRECT]", "[SCRIPT:door]">>}

\* the call, and after it one comment command for each comment of the table
CallBody(name, tags) == <<CallCmd(name)>> \o [i \in 1..Len(tags) |-> Comment(i - 1)]

CallProgram(name, tags, inner) ==
    Program(IF inner THEN <<L(<<Tell(Get("event.room"), 1)>>), L(CallBody(name, tags))>>
            ELSE <<L(CallBody(name, tags))>>,
            tags, {"update"}, {TheHandler})

InitCall ==
    \E name \in CallNames, tags \in CallTags, inner \in BOOLEAN :
        Start(CallProgram(name, tags, inner))

SpecCall == InitCall /\ [][Next]_vars

\* C10 as claimed: a call tagged [DIRECT] and not [SCRIPT:...] is emitted as
\* the member of the current dispatch object, without the wildcard handler,
\* whatever the dispatch object is and whether the name is a known handler
\* or not.
C10_Direct ==
    \A k \in 1..Len(out) :
        LET inner  == Len(ctx.blocks) = 2
            cmd    == ctx.blocks[Len(ctx.blocks)].v[1]
            evobj  == IF inner THEN "__actor.script" ELSE "__self"
            tags   == {Strip(prog.comments[i]) : i \in 1..Len(prog.comments)}
            callee == IF istoken(At(cmd, 1)) THEN evobj \o "." \o At(cmd, 1).v
                      ELSE evobj \o "[\"" \o At(cmd, 1).v \o "\"]"
            l      == Lines(out[k].r)
        IN  ("[DIRECT]" \in tags /\ \A t \in tags : ~StartsWith(t, "[SCRIPT:")) =>
                \E i \in 1..Len(l) : StartsWith(LStrip(l[i]), callee \o "(__actor, event, ")


(***************************************************************************)
(* Handlers with unrecognized tags: block 0 is a = 1, one command, b = 2   *)
(***************************************************************************)
Zap == L(<<S("zap")>>)
Zop == L(<<S("zop"), N(1)>>)

SoftTags == {"zap", "zop", "zip", "frobnicate"}

SoftCmds ==
    { L(<<S("frobnicate"), N(1)>>),
      SetCmd("c", L(<<S("frobnicate"), N(1)>>)),
      SetCmd("c", N(3)),
      L(<<S("log"), L(<<S("floor"), Zap>>)>>),
      L(<<S("if"), Cmp("eq", Zap, Zop), Blk(1)>>),
      L(<<S("while"), Cmp("lt", S("n"), N(3)), Blk(1)>>),
      L(<<S("say"), L(<<S("format"), S("x"), Zap>>), Blk(1)>>),
      L(<<S("goto"), Zap, Zop>>),
      L(<<S("emit"), L(<<S("zap"), Zop>>)>>),
      Mimic(Zap),
      L(<<S("call"), Zop>>),
      Tell(L(<<S("xy"), N(1), Zap>>), 1),
      Tell(Zop, 1) }

SoftProgram(cmd, h) ==
    Program(<<L(<<SetCmd("a", N(1)), cmd, SetCmd("b", N(2))>>),
              L(<<L(<<S("zip"), N(1)>>), SetCmd("c", Zop)>>)>>,
            <<>>, {"update"}, {h})

InitSoft == \E cmd \in SoftCmds, h \in MimicHandlers : Start(SoftProgram(cmd, h))

SpecSoft == InitSoft /\ [][Next]_vars

\* the tags transpile_command knows, and the tags that may stand inside a command
CommandTags ==
    {"_", "done", "set", "add", "sub", "div", "mul", "inc", "dec", "random", "if", "while",
     "call", "emit", "mimic", "tell", "#", "#$"} \cup funclist
InnerTags ==
    {"get", "optimized-id", "format", "embed", "name", "block", "xy", "rect", "else", "elseif"}
      \cup exfuncs \cup DOMAIN compdict

RECURSIVE Unknowns(_, _, _)
RECURSIVE UnknownsFrom(_, _, _, _)
\* the diagnostics for the tree v of the table b, in source order; v is a
\* command (iscmd) or stands inside one.  What stands inside an unrecognized
\* node is not looked at, and a block operand stands for the block's commands.
Unknowns(b, v, iscmd) ==
    IF ~IsList(v) \/ PyLen(v) = 0 THEN <<>>
    ELSE LET tag == At(v, 0).v
         IN  IF iscmd /\ tag \notin CommandTags THEN <<"unknown command code: " \o tag>>
             ELSE IF ~iscmd /\ tag \notin InnerTags THEN <<"unknown expression code: " \o tag>>
             ELSE IF ~iscmd /\ tag = "block" THEN UnknownsFrom(b, b[At(v, 1).v + 1], 0, TRUE)
             ELSE UnknownsFrom(b, v, 1, FALSE)
\* the same for the elements of the list v from the k-th on
UnknownsFrom(b, v, k, iscmd) ==
    IF k >= PyLen(v) THEN <<>>
    ELSE Unknowns(b, At(v, k), iscmd) \o UnknownsFrom(b, v, k + 1, iscmd)

\* the placeholder that stands for a diagnostic
Placeholder(msg) ==
    IF StartsWith(msg, "unknown command code: ")
    THEN "--unknown command code '" \o Drop(msg, Len("unknown command code: ")) \o "'\n"
    ELSE "nil --[[unknown expression code '"
           \o Drop(msg, Len("unknown expression code: ")) \o "']]"

\* C9: a call of transpile_event on a handler with unrecognized command or
\* expression tags returns (nothing is raised); it appends to ctx.errors one
\* entry naming the tag for each unrecognized node it comes to, in source
\* order, and leaves the entries that were there as they were; the text has
\* a placeholder for each entry (nil with a comment for an expression, a
\* comment line for a command) and names no other tag as unknown; and the commands before and after are
\* compiled, in order: a = 1 is the first statement and b = 2 the last.
C9_SoftErrors ==
    [][/\ ~Raised(ctx')
       /\ Compiled =>
            LET h    == CHOOSE g \in prog.handlers : CallOf(g) = out'[Len(out')].call
                new  == UnknownsFrom(ctx.blocks, ctx.blocks[h.blockidx + 1], 0, TRUE)
                text == out'[Len(out')].r
                l    == Lines(text)
            IN  /\ ctx'.errors = ctx.errors \o new
                /\ \A i \in 1..Len(new) :
                       Count(text, Placeholder(new[i]))
                         >= Cardinality({j \in 1..Len(new) : new[j] = new[i]})
                /\ \A t \in SoftTags :
                       Contains(text, "code '" \o t \o "'")
                         <=> \E i \in 1..Len(new) : EndsWith(new[i], " code: " \o t)
                /\ \E i \in 2..Len(l) :
                       /\ l[i] = "  a = 1"
                       /\ \A m \in 2..(i - 1) : IsCached(l[m])
                /\ l[Len(l) - 1] = "  b = 2"]_vars

\* a handler whose if has two unrecognized expressions in its condition and a
\* body with an unrecognized command and expression has been compiled twice
\* on one context: eight entries, in source order twice
C9_Witness ==
    /\ Len(out) = 2
    /\ ~out[2].fresh
    /\ ctx.errors = <<"unknown expression code: zap", "unknown expression code: zop",
                      "unknown command code: zip", "unknown expression code: zop",
                      "unknown expression code: zap", "unknown expression code: zop",
                      "unknown command code: zip", "unknown expression code: zop">>
    /\ Contains(out[2].r, "  a = 1\n  if nil --[[unknown expression code 'zap']] == "
                          \o "nil --[[unknown expression code 'zop']] then\n"
                          \o "    --unknown command code 'zip'\n")


(***************************************************************************)
(* Handlers with a call and a comment somewhere in the same block: block 0 *)
(* has the comment, block 1 is the same block without it                   *)
(***************************************************************************)
TagComments == {"[DIRECT]", "[SCRIPT:door]", "note"}
TagSeps     == {SetCmd("a", N(1)), L(<<S("emit"), S("tick")>>)}

\* where the comment stands: right after the call, after the call behind
\* another command, right before the call, before the call ahead of another
\* command
TagLayouts(name, sep) ==
    { <<CallCmd(name), Comment(0)>>,
      <<CallCmd(name), sep, Comment(0)>>,
      <<Comment(0), CallCmd(name)>>,
      <<Comment(0), sep, CallCmd(name)>> }

TagHandlers == {Handler("player", "update", 0, ""), Handler("player", "update", 1, "")}

TagProgram(body, tag) ==
    Program(<<L(body), L(SelectSeq(body, LAMBDA x : ~IsCommentCmd(x)))>>,
            <<tag>>, {"update"}, TagHandlers)

InitTag ==
    \E name \in CallNames, sep \in TagSeps, tag \in TagComments :
        \E body \in TagLayouts(name, sep) : Start(TagProgram(body, tag))

SpecTag == InitTag /\ [][Next]_vars

\* the comment of block 0 is a [DIRECT] or [SCRIPT:...] tag
Tagged == prog.comments[1] = "[DIRECT]" \/ StartsWith(prog.comments[1], "[SCRIPT:")

\* another command stands between the call and the comment of block 0
Separated == Len(ctx.blocks[1].v) = 3

\* the comment of block 0 stands after the call
TagFollows == IsCommentCmd(ctx.blocks[1].v[Len(ctx.blocks[1].v)])

\* the lines of a text that are not a comment of their own
CodeLines(t) == SelectSeq(Lines(t), LAMBDA l : ~StartsWith(LStrip(l), "--"))

\* block 0 and block 1 have each been compiled on a new context
BothCompiled ==
    /\ Len(out) = 2
    /\ out[1].fresh /\ out[2].fresh
    /\ out[1].call[4] # out[2].call[4]

\* C11 as claimed: a [DIRECT] or [SCRIPT:...] comment that another command
\* separates from the call changes nothing: the handler with the comment
\* compiles to the statements of the handler without it, and registers no
\* script tag.
C11_AdjacentOnly ==
    (Tagged /\ Separated /\ BothCompiled) =>
        /\ CodeLines(out[1].r) = CodeLines(out[2].r)
        /\ DOMAIN ctx.script_tags = {}


(***************************************************************************)
(* Script tags: calls of ctx.add_script_tag, as op_call makes them for a   *)
(* [SCRIPT:...] tag                                                        *)
(***************************************************************************)
ScriptSrcs  == {"door", "my-src", "my src"}
ScriptNames == {"update", "my event", "my_event"}

\* ctx.add_script_tag(scriptsrc, name)
AddScriptTag(scriptsrc, name) ==
    /\ Len(out) < MaxRuns
    /\ LET r == add_script_tag(ctx, scriptsrc, name)
       IN  /\ ctx' = r.ctx
           /\ out' = Append(out, [call |-> <<"add_script_tag", scriptsrc, name>>,
                                  fresh |-> ctx = Fresh(ctx), r |-> r.r])
    /\ UNCHANGED prog

NextScript ==
    NewContext \/ \E scriptsrc \in ScriptSrcs, name \in ScriptNames : AddScriptTag(scriptsrc, name)

InitScript == Start(Program(<<>>, <<>>, {}, {}))

SpecScript == InitScript /\ [][NextScript]_vars

\* the calls made on the context as it is now, in order
CallsHere ==
    IF ctx = Fresh(ctx) THEN <<>>
    ELSE LET first == CHOOSE k \in 1..Len(out) :
                          out[k].fresh /\ \A m \in (k + 1)..Len(out) : ~out[m].fresh
         IN  SubSeq(out, first, Len(out))

PairOf(o) == <<o.call[2], o.call[3]>>

\* C12 as claimed: after any sequence of add_script_tag calls on a context,
\* ctx.script_tags has one entry for each distinct (scriptsrc, name) pair
\* passed; the same pair always gets the same identifier, two distinct pairs
\* never get the same identifier, and the entry under an identifier records
\* the pair of every call that returned it.
C12_OnePerPair ==
    LET calls == CallsHere
        here  == 1..Len(calls)
    IN  /\ Cardinality(DOMAIN ctx.script_tags) = Cardinality({PairOf(calls[i]) : i \in here})
        /\ \A i, j \in here : (PairOf(calls[i]) = PairOf(calls[j])) <=> (calls[i].r = calls[j].r)
        /\ \A i \in here :
               /\ calls[i].r \in DOMAIN ctx.script_tags
               /\ ctx.script_tags[calls[i].r]
                    = [scriptsrc |-> calls[i].call[2], name |-> calls[i].call[3]]


(***************************************************************************)
(* Handlers that end with a fatal error: the nested handlers above, one    *)
(* construct deep, with a last block that holds a command the compiler     *)
(* raises on                                                               *)
(***************************************************************************)
\* e is the index of a block a continuation may name
FatalCmds(e) ==
    { L(<<S("random")>>),
      L(<<S("random"), N(1), N(2), N(3)>>),
      L(<<S("if"), Cmp("zz", S("n"), N(1)), Blk(e)>>),
      L(<<S("while"), Cmp("eq", S("n"), N(1)), Blk(e), L(<<S("elsif"), Blk(e)>>)>>),
      L(<<S("if"), Cmp("eq", S("n"), N(1)), Blk(e), L(<<S("else"), S("oops")>>)>>),
      L(<<S("if"), Cmp("eq", S("n"), N(1)), S("oops")>>),
      L(<<S("tell"), Get("event.room"), S("oops")>>) }

FatalProgram(kinds, cmd) ==
    NestProgram(kinds, <<SetCmd("a", Get("event.x"))>>, <<SetCmd("b", Get("event.y")), cmd>>)

\* the failing command in the handler's own block, and inside each construct
FatalKindSeqs == {<<>>} \cup {<<kind>> : kind \in NestKinds}

InitFatal ==
    \E kinds \in FatalKindSeqs :
        \E cmd \in FatalCmds(Len(kinds) + 1) : Start(FatalProgram(kinds, cmd))

SpecFatal == InitFatal /\ [][Next]_vars

\* C13 as claimed: when the compilation of a handler, with or without tell
\* bodies and inline subroutines around the failing command, ends with a
\* fatal structural error, ctx.evobjs and ctx.funccache have the lengths
\* they had before the handler was entered.
C13_RestoredOnError ==
    [][(~Raised(ctx) /\ Raised(ctx')) =>
          /\ Len(ctx'.evobjs) = Len(ctx.evobjs)
          /\ Len(ctx'.funccache) = Len(ctx.funccache)]_vars

=============================================================================
